---- MODULE Spec2Model ----
(***************************************************************************)
(* Model of server/scripts/pdfium_extract_assets.py: the rectangle         *)
(* geometry, the text line builder and the two crop selectors.             *)
(*                                                                         *)
(* Numbers.  Python floats are modelled exactly:                           *)
(*   - a float rectangle handed to clamp_bounds is in fixed point, its     *)
(*     fields numerators over FloatDen (half pixels: the code's only       *)
(*     fractions before a clamp are the halves of lines 49, 54, 70, 71);   *)
(*     the rectangle clamp_bounds returns is in whole pixels (int);        *)
(*   - an area ratio (0.72, 0.004, ...) is in per mille;                   *)
(*   - an intersection over union is the pair <<intersection, union>>.     *)
(***************************************************************************)
EXTENDS Integers, Sequences, FiniteSets, TLC

VARIABLES
    pc,                    \* position of the caller
    bounds,                \* geometry: the float rectangle given to clamp_bounds
    page,                  \* [width, height] of the page in pixels
    clamped,               \* geometry: the successive results of clamp_bounds
    box_b,                 \* geometry: the second rectangle given to intersection_over_union
    iou,                   \* geometry: <<IoU(a, b), IoU(b, a), IoU(a, a)>> once computed
    args,                  \* the thresholds of the command line (lines 416-432)
    text_lines,            \* the page's text lines (line 482)
    raw_image_bounds,      \* the page's image rectangles (line 484)
    crop_bounds,           \* result of select_image_crop_boxes (line 503)
    text_crop_candidates,  \* result of select_text_crop_candidates (line 512)
    primary_image,         \* selected at line 383, before the image fallback
    primary_text,          \* selected at line 320, before the text fallback
    char_items,            \* line builder: the character items in the order given
    permuted,              \* line builder: the same items in another order
    lines_a,               \* line builder: <<build_text_lines(char_items)>> once built
    lines_b,               \* line builder: <<build_text_lines(permuted)>> once built
    pdf,                   \* main: the document, a list of pages (line 442)
    page_number,           \* main: the loop variable of line 448
    page_image_files,      \* main: line 444
    image_candidates,      \* main: line 445
    total_crop_count,      \* main: line 446
    crop_sequence,         \* main: line 526
    next_crop              \* main: position of the loops of lines 527 and 560

geom_vars == <<bounds, clamped, box_b, iou>>
select_vars == <<args, text_lines, raw_image_bounds, crop_bounds, text_crop_candidates,
                 primary_image, primary_text>>
lines_vars == <<char_items, permuted, lines_a, lines_b>>
main_vars == <<pdf, page_number, page_image_files, image_candidates, total_crop_count,
               crop_sequence, next_crop>>
vars == <<pc, page, geom_vars, select_vars, lines_vars, main_vars>>

Max(a, b) == IF a >= b THEN a ELSE b
Min(a, b) == IF a <= b THEN a ELSE b
Abs(a) == IF a >= 0 THEN a ELSE -a

(***************************************************************************)
(* Fixed point: a float v is the integer v * FloatDen.                     *)
(***************************************************************************)
FloatDen == 2

Floor(v) == v \div FloatDen
Ceil(v) == -((-v) \div FloatDen)

Rect(x, y, w, h) == [x |-> x, y |-> y, width |-> w, height |-> h]

\* An int rectangle as the float rectangle of the same value.
ToFloat(b) == Rect(b.x * FloatDen, b.y * FloatDen, b.width * FloatDen, b.height * FloatDen)

Area(b) == b.width * b.height

(***************************************************************************)
(* clamp_bounds, lines 25-35.  ClampFloorCeil is the function of the four  *)
(* rounded values it reads: floor(x), floor(y), ceil(x + width),           *)
(* ceil(y + height).                                                       *)
(***************************************************************************)
ClampFloorCeilWidthOffByOne(floor_x, floor_y, ceil_max_x, ceil_max_y, page_width, page_height) ==
    LET x == Max(0, floor_x)
        y == Max(0, floor_y)
        max_x == Min(page_width, ceil_max_x)
        max_y == Min(page_height, ceil_max_y)
    IN  Rect(x, y, Max(0, max_x - x + 1), Max(0, max_y - y))

ClampFloorCeil(floor_x, floor_y, ceil_max_x, ceil_max_y, page_width, page_height) ==
    LET x == Max(0, floor_x)
        y == Max(0, floor_y)
        max_x == Min(page_width, ceil_max_x)
        max_y == Min(page_height, ceil_max_y)
    IN  Rect(x, y, Max(0, max_x - x), Max(0, max_y - y))

clamp_bounds(b, page_width, page_height) ==
    ClampFloorCeil(Floor(b.x), Floor(b.y), Ceil(b.x + b.width), Ceil(b.y + b.height),
                   page_width, page_height)

(***************************************************************************)
(* intersection_over_union, lines 85-101.  The quotient of line 101 is the *)
(* pair <<intersection_area, union_area>>; the two early returns of 0 are  *)
(* <<0, 1>>.                                                               *)
(***************************************************************************)
IoUUnionIsAreaA(box_a, box_b_) ==
    LET intersection_x == Max(box_a.x, box_b_.x)
        intersection_y == Max(box_a.y, box_b_.y)
        intersection_max_x == Min(box_a.x + box_a.width, box_b_.x + box_b_.width)
        intersection_max_y == Min(box_a.y + box_a.height, box_b_.y + box_b_.height)
        intersection_area == Max(0, intersection_max_x - intersection_x)
                             * Max(0, intersection_max_y - intersection_y)
        union_area == Area(box_a)
    IN  IF intersection_area <= 0 THEN <<0, 1>>
        ELSE IF union_area <= 0 THEN <<0, 1>>
        ELSE <<intersection_area, union_area>>

intersection_over_union(box_a, box_b_) ==
    LET intersection_x == Max(box_a.x, box_b_.x)
        intersection_y == Max(box_a.y, box_b_.y)
        intersection_max_x == Min(box_a.x + box_a.width, box_b_.x + box_b_.width)
        intersection_max_y == Min(box_a.y + box_a.height, box_b_.y + box_b_.height)
        intersection_width == Max(0, intersection_max_x - intersection_x)
        intersection_height == Max(0, intersection_max_y - intersection_y)
        intersection_area == intersection_width * intersection_height
        area_a == Area(box_a)
        area_b == Area(box_b_)
        union_area == area_a + area_b - intersection_area
    IN  IF intersection_area <= 0 THEN <<0, 1>>
        ELSE IF union_area <= 0 THEN <<0, 1>>
        ELSE <<intersection_area, union_area>>

\* iou > pct / 100, the comparison of lines 313 and 378.
IoUExceeds(q, pct) == q[1] * 100 > pct * q[2]

(***************************************************************************)
(* ensure_minimum_bounds_size, lines 38-57, for the int rectangle every    *)
(* caller passes (a result of clamp_bounds, never None or empty): grows a  *)
(* too small side to the minimum about its centre, x -= grow_by / 2, then  *)
(* clamps.                                                                 *)
(***************************************************************************)
ensure_minimum_bounds_size(b, min_width, min_height, page_width, page_height) ==
    LET grow_w == min_width - b.width
        grow_h == min_height - b.height
        x == IF b.width < min_width
             THEN b.x * FloatDen - (grow_w * FloatDen) \div 2 ELSE b.x * FloatDen
        width == IF b.width < min_width THEN min_width * FloatDen ELSE b.width * FloatDen
        y == IF b.height < min_height
             THEN b.y * FloatDen - (grow_h * FloatDen) \div 2 ELSE b.y * FloatDen
        height == IF b.height < min_height THEN min_height * FloatDen ELSE b.height * FloatDen
    IN  clamp_bounds(Rect(x, y, width, height), page_width, page_height)

(***************************************************************************)
(* shrink_bounds_to_target_area_ratio, lines 60-82, for an int rectangle   *)
(* and a ratio in per cent.  scale = sqrt(target_area / current_area) is   *)
(* irrational in general; the clamp reads only                             *)
(*    floor(center_x - target_width / 2) = b.x + j,                        *)
(*    ceil(center_x + target_width / 2)  = b.x + width - j,                *)
(* where j is the largest inset with width * scale <= width - 2 * j, that  *)
(* is width^2 * target_area <= current_area * (width - 2 * j)^2.           *)
(***************************************************************************)
ShrinkInset(side, target_area100, current_area) ==
    LET fits(j) == side * side * target_area100
                   <= 100 * current_area * (side - 2 * j) * (side - 2 * j)
        J == {j \in 0 .. (side \div 2) : fits(j)}
    IN  CHOOSE j \in J : \A k \in J : k <= j

ShrinkNothing(b, page_width, page_height, target_area_ratio) ==
    clamp_bounds(ToFloat(b), page_width, page_height)

shrink_bounds_to_target_area_ratio(b, page_width, page_height, target_area_ratio) ==
    LET page_area == Max(1, page_width * page_height)
        target_area100 == Max(100, page_area * target_area_ratio)
        current_area == Max(1, b.width * b.height)
    IN  IF current_area * 100 <= target_area100
        THEN clamp_bounds(ToFloat(b), page_width, page_height)
        ELSE LET jx == ShrinkInset(b.width, target_area100, current_area)
                 jy == ShrinkInset(b.height, target_area100, current_area)
             IN  ClampFloorCeil(b.x + jx, b.y + jy,
                                b.x + b.width - jx, b.y + b.height - jy,
                                page_width, page_height)

(***************************************************************************)
(* Strings are sequences of one-character strings.                         *)
(***************************************************************************)
UpperCase == <<"A", "B", "C", "D", "E", "F", "G", "H", "I", "J", "K", "L", "M",
               "N", "O", "P", "Q", "R", "S", "T", "U", "V", "W", "X", "Y", "Z">>
LowerCase == <<"a", "b", "c", "d", "e", "f", "g", "h", "i", "j", "k", "l", "m",
               "n", "o", "p", "q", "r", "s", "t", "u", "v", "w", "x", "y", "z">>
Digits == {"0", "1", "2", "3", "4", "5", "6", "7", "8", "9"}
Whitespace == {" "}

\* str.lower() of one character
ToLower == [i \in 1 .. Len(UpperCase) |-> LowerCase[i]]
UpperCaseSet == {UpperCase[i] : i \in 1 .. Len(UpperCase)}
LowerCaseSet == {LowerCase[i] : i \in 1 .. Len(LowerCase)}
Lower(c) ==
    IF c \in UpperCaseSet
    THEN ToLower[CHOOSE i \in 1 .. Len(UpperCase) : UpperCase[i] = c]
    ELSE c

\* the class [a-z0-9\s] of line 21
IsWordOrSpace(c) == c \in LowerCaseSet \/ c \in Digits \/ c \in Whitespace

RECURSIVE CollapseWhitespace(_)
\* re.sub(r"\s+", " ", s), line 16
CollapseWhitespace(s) ==
    IF s = <<>> THEN <<>>
    ELSE IF Len(s) = 1 THEN (IF s[1] \in Whitespace THEN <<" ">> ELSE s)
    ELSE LET half == Len(s) \div 2
             left == CollapseWhitespace(SubSeq(s, 1, half))
             right == CollapseWhitespace(SubSeq(s, half + 1, Len(s)))
         IN  \* a run of whitespace across the cut is one run
             IF left[Len(left)] = " " /\ right[1] = " "
             THEN left \o Tail(right) ELSE left \o right

RECURSIVE Strip(_)
\* str.strip()
Strip(s) ==
    IF s = <<>> THEN <<>>
    ELSE IF Head(s) \in Whitespace THEN Strip(Tail(s))
    ELSE IF s[Len(s)] \in Whitespace THEN Strip(SubSeq(s, 1, Len(s) - 1))
    ELSE s

\* normalize_whitespace, lines 13-16
normalize_whitespace(value) ==
    IF value = <<>> THEN <<>> ELSE Strip(CollapseWhitespace(value))

RECURSIVE WordLen(_)
WordLen(s) == IF s = <<>> \/ Head(s) \in Whitespace THEN 0 ELSE 1 + WordLen(Tail(s))

RECURSIVE Split(_)
\* str.split()
Split(s) ==
    IF s = <<>> THEN <<>>
    ELSE IF Head(s) \in Whitespace THEN Split(Tail(s))
    ELSE LET n == WordLen(s)
         IN  <<SubSeq(s, 1, n)>> \o Split(SubSeq(s, n + 1, Len(s)))

\* tokenize_for_score, lines 19-22: the list of tokens
tokenize_for_score(value) ==
    LET text == normalize_whitespace(value)
        lowered == [i \in 1 .. Len(text) |-> Lower(text[i])]
        cleaned == [i \in 1 .. Len(text) |->
                       IF IsWordOrSpace(lowered[i]) THEN lowered[i] ELSE " "]
        IsToken(token) == Len(token) >= 3
    IN  SelectSeq(Split(cleaned), IsToken)

\* s[:n]
Prefix(s, n) == SubSeq(s, 1, Min(Len(s), Max(0, n)))

SetMin(S) == CHOOSE m \in S : \A k \in S : m <= k
SetMax(S) == CHOOSE m \in S : \A k \in S : m >= k

(***************************************************************************)
(* build_text_lines, lines 171-237, for the int character boxes            *)
(* extract_char_items produces (lines 154-167).  A line under construction *)
(* is [items, sum2]: center_y, the mean of the members' centres            *)
(* y + height / 2, is sum2 / (2 * Len(items)), kept as the exact sum of    *)
(* the doubled centres.                                                    *)
(***************************************************************************)
DEFAULT_MEDIAN_HEIGHT == 12               \* line 177
LINE_GAP_MIN == 6                         \* line 178
LINE_GAP_MAX == 20                        \* line 178

\* the key of line 175
ItemKeyLess(a, b) == a.y < b.y \/ (a.y = b.y /\ a.x < b.x)

RECURSIVE SortItemsByYX(_)
\* line 175: sorted(char_items, key=(y, x)), a stable sort
SortItemsByYX(items) ==
    IF items = <<>> THEN <<>>
    ELSE LET sorted == SortItemsByYX(SubSeq(items, 1, Len(items) - 1))
             last == items[Len(items)]
             k == Cardinality({i \in 1 .. Len(sorted) : ~ ItemKeyLess(last, sorted[i])})
         IN  SubSeq(sorted, 1, k) \o <<last>> \o SubSeq(sorted, k + 1, Len(sorted))

RECURSIVE SortItemsByX(_)
\* line 201: sorted(line["items"], key=x), a stable sort
SortItemsByX(items) ==
    IF items = <<>> THEN <<>>
    ELSE LET sorted == SortItemsByX(SubSeq(items, 1, Len(items) - 1))
             last == items[Len(items)]
             k == Cardinality({i \in 1 .. Len(sorted) : sorted[i].x <= last.x})
         IN  SubSeq(sorted, 1, k) \o <<last>> \o SubSeq(sorted, k + 1, Len(sorted))

\* lines 176-177: sorted(heights)[len(heights) // 2], or 12
MedianHeight(items) ==
    LET P == {i \in 1 .. Len(items) : items[i].height > 0}
        \* the rank of item i among the positive heights, ties by position
        Rank(i) == Cardinality({k \in P : \/ items[k].height < items[i].height
                                          \/ items[k].height = items[i].height /\ k < i})
    IN  IF P = {} THEN DEFAULT_MEDIAN_HEIGHT
        ELSE items[CHOOSE i \in P : Rank(i) = Cardinality(P) \div 2].height

\* round(n / d) of Python 3: to the nearest integer, a half to the even one
RoundHalfEven(n, d) ==
    LET q == n \div d
        r == n % d
    IN  IF 2 * r < d THEN q
        ELSE IF 2 * r > d THEN q + 1
        ELSE IF q % 2 = 0 THEN q ELSE q + 1

\* line 178: max(6, min(20, int(round(median_height * 0.9))))
LineGap(median_height) ==
    Max(LINE_GAP_MIN, Min(LINE_GAP_MAX, RoundHalfEven(median_height * 9, 10)))

\* doubled centre of an item (line 182)
Center2(item) == 2 * item.y + item.height

\* lines 185-189: the index of the line the item joins, 0 if none.  delta is
\* DeltaNum / (2 * Len(items)); the first line of the least delta wins.
MatchedLine(lines, item, line_gap) ==
    LET DeltaNum(i) == Abs(lines[i].sum2 - Len(lines[i].items) * Center2(item))
        Q == {i \in 1 .. Len(lines) : DeltaNum(i) <= 2 * Len(lines[i].items) * line_gap}
        Closest == {i \in Q : \A k \in Q :
                       DeltaNum(i) * Len(lines[k].items) <= DeltaNum(k) * Len(lines[i].items)}
    IN  IF Q = {} THEN 0 ELSE SetMin(Closest)

RECURSIVE ClusterItems(_, _, _, _)
\* lines 180-197: the loop from item i on
ClusterItems(sorted_items, i, lines, line_gap) ==
    IF i > Len(sorted_items) THEN lines
    ELSE LET item == sorted_items[i]
             m == MatchedLine(lines, item, line_gap)
         IN  IF m = 0
             THEN ClusterItems(sorted_items, i + 1,
                               Append(lines, [items |-> <<item>>, sum2 |-> Center2(item)]),
                               line_gap)
             ELSE ClusterItems(sorted_items, i + 1,
                               [lines EXCEPT ![m] = [items |-> Append(@.items, item),
                                                     sum2 |-> @.sum2 + Center2(item)]],
                               line_gap)

RECURSIVE LinePieces(_, _)
\* lines 209-221: pieces, from the item i of the line on
LinePieces(items, i) ==
    IF i > Len(items) THEN <<>>
    ELSE LET item == items[i]
             previous == items[i - 1]
             gap == item.x - (previous.x + previous.width)
             \* gap > max(1.5, min(heights) * 0.35), in hundredths
             wide == gap * 100 > Max(150, Min(previous.height, item.height) * 35)
             space == IF i > 1 /\ wide /\ previous.text # " " /\ item.text # " "
                      THEN <<" ">> ELSE <<>>
         IN  space \o <<item.text>> \o LinePieces(items, i + 1)

\* lines 201-235: the text line of a cluster; <<>> if its text is empty
NormalizedLine(line) ==
    LET items == SortItemsByX(line.items)
        I == 1 .. Len(items)
        min_x == SetMin({items[i].x : i \in I})
        min_y == SetMin({items[i].y : i \in I})
        max_x == SetMax({items[i].x + items[i].width : i \in I})
        max_y == SetMax({items[i].y + items[i].height : i \in I})
        line_text == normalize_whitespace(LinePieces(items, 1))
    IN  IF line_text = <<>> THEN <<>>
        ELSE <<[text |-> line_text, x |-> min_x, y |-> min_y,
                width |-> max_x - min_x, height |-> max_y - min_y]>>

RECURSIVE NormalizedLines(_, _)
NormalizedLines(lines, i) ==
    IF i > Len(lines) THEN <<>>
    ELSE NormalizedLine(lines[i]) \o NormalizedLines(lines, i + 1)

\* lines 171-237
build_text_lines(items) ==
    IF items = <<>> THEN <<>>
    ELSE LET sorted_items == SortItemsByYX(items)
             line_gap == LineGap(MedianHeight(sorted_items))
         IN  NormalizedLines(ClusterItems(sorted_items, 1, <<>>, line_gap), 1)

(***************************************************************************)
(* Thresholds written as literals in the selectors.  Area ratios are in    *)
(* per mille, IoU thresholds in per cent, scores in hundredths.            *)
(***************************************************************************)
IMAGE_CROP_FALLBACK_AREA_RATIO == 62      \* per cent, line 10
TEXT_MIN_AREA_RATIO == 4                  \* 0.004, line 294
TEXT_MAX_AREA_RATIO == 680                \* 0.68, line 295
TEXT_IOU_PCT == 72                        \* 0.72, line 313
TEXT_FALLBACK_MIN_HEIGHT == 56            \* line 336
TEXT_FALLBACK_MIN_AREA_RATIO == 2         \* 0.002, line 341
IMAGE_IOU_PCT == 85                       \* 0.85, line 378
SCORE_TEXT_CAP == 200                     \* line 299

(***************************************************************************)
(* select_text_crop_candidates, lines 240-350.  a is the record of the     *)
(* thresholds, named as the parameters.                                    *)
(***************************************************************************)
PageArea(page_width, page_height) == Max(1, page_width * page_height)

RECURSIVE WindowText(_, _, _)
\* combined_text after the lines start..end_ (line 267)
WindowText(lines, start, end_) ==
    IF end_ < start THEN <<>>
    ELSE normalize_whitespace(WindowText(lines, start, end_ - 1) \o <<" ">> \o lines[end_].text)

\* token_set after the lines start..end_ (line 268)
WindowTokens(lines, start, end_) ==
    UNION {LET tokens == tokenize_for_score(lines[i].text)
           IN  {tokens[k] : k \in 1 .. Len(tokens)} : i \in start .. end_}

\* lines 270-288: the union of the lines' rectangles, padded and clamped
WindowBounds(lines, start, end_, page_width, page_height, a) ==
    LET min_x == SetMin({lines[i].x : i \in start .. end_})
        min_y == SetMin({lines[i].y : i \in start .. end_})
        max_x == SetMax({lines[i].x + lines[i].width : i \in start .. end_})
        max_y == SetMax({lines[i].y + lines[i].height : i \in start .. end_})
        pad == a.text_block_padding_px
    IN  clamp_bounds(ToFloat(Rect(min_x - pad, min_y - pad,
                                  (max_x - min_x) + pad * 2, (max_y - min_y) + pad * 2)),
                     page_width, page_height)

\* lines 275-277: the window is long enough
WindowLongEnough(lines, start, end_, a) ==
    ~ \/ end_ - start + 1 < a.min_text_lines_per_block
      \/ Len(WindowText(lines, start, end_)) < a.min_text_block_char_length

TextSizeFilterNoHeight(expanded, page_area, a) ==
    ~ \/ expanded.width < a.min_crop_edge_px
      \/ Area(expanded) * 1000 < page_area * TEXT_MIN_AREA_RATIO
      \/ Area(expanded) * 1000 > page_area * TEXT_MAX_AREA_RATIO

\* lines 290-297: the size filter (TRUE: the candidate is kept)
TextSizeFilter(expanded, page_area, a) ==
    ~ \/ expanded.width < a.min_crop_edge_px
      \/ expanded.height < a.min_text_block_height_px
      \/ Area(expanded) * 1000 < page_area * TEXT_MIN_AREA_RATIO
      \/ Area(expanded) * 1000 > page_area * TEXT_MAX_AREA_RATIO

\* lines 299-306: the candidate of a window; score in hundredths
TextCandidate(lines, start, end_, page_width, page_height, a) ==
    LET combined_text == WindowText(lines, start, end_)
    IN  [bounds |-> WindowBounds(lines, start, end_, page_width, page_height, a),
         contextText |-> Prefix(combined_text, a.max_context_length),
         score |-> Cardinality(WindowTokens(lines, start, end_)) * 200
                   + Min(SCORE_TEXT_CAP, Len(combined_text)) * 7]

RECURSIVE RawTextCandidates(_, _, _, _, _, _)
\* lines 256-306: raw_candidates, in the order of the two loops
RawTextCandidates(lines, start, end_, page_width, page_height, a) ==
    IF start > Len(lines) THEN <<>>
    ELSE IF end_ > Min(Len(lines), start + a.max_text_lines_per_block - 1)
    THEN RawTextCandidates(lines, start + 1, start + 1, page_width, page_height, a)
    ELSE LET rest == RawTextCandidates(lines, start, end_ + 1, page_width, page_height, a)
             cand == TextCandidate(lines, start, end_, page_width, page_height, a)
         IN  IF /\ WindowLongEnough(lines, start, end_, a)
                /\ TextSizeFilter(cand.bounds, PageArea(page_width, page_height), a)
             THEN <<cand>> \o rest
             ELSE rest

RECURSIVE SortByScoreDescending(_)
\* line 308: list.sort(key=score, reverse=True), a stable sort
SortByScoreDescending(cands) ==
    IF cands = <<>> THEN <<>>
    ELSE LET sorted == SortByScoreDescending(SubSeq(cands, 1, Len(cands) - 1))
             last == cands[Len(cands)]
             \* last goes after every element whose score is >= its own
             k == Cardinality({i \in 1 .. Len(sorted) : sorted[i].score >= last.score})
         IN  SubSeq(sorted, 1, k) \o <<last>> \o SubSeq(sorted, k + 1, Len(sorted))

TextOverlapsLastOnly(selected, candidate) ==
    /\ selected # <<>>
    /\ IoUExceeds(intersection_over_union(selected[Len(selected)].bounds, candidate.bounds),
                  TEXT_IOU_PCT)

\* lines 312-315
TextOverlapsExisting(selected, candidate) ==
    \E i \in 1 .. Len(selected) :
        IoUExceeds(intersection_over_union(selected[i].bounds, candidate.bounds), TEXT_IOU_PCT)

RECURSIVE TextGreedy(_, _, _, _)
\* lines 310-319: the loop from candidate i on
TextGreedy(cands, i, selected, max_text_crops_per_page) ==
    IF i > Len(cands) THEN selected
    ELSE LET next == IF TextOverlapsExisting(selected, cands[i])
                     THEN selected ELSE Append(selected, cands[i])
         IN  IF Len(next) >= max_text_crops_per_page THEN next
             ELSE TextGreedy(cands, i + 1, next, max_text_crops_per_page)

\* lines 253-319: selected before the fallback
TextPrimary(lines, page_width, page_height, a) ==
    TextGreedy(SortByScoreDescending(RawTextCandidates(lines, 1, 1, page_width, page_height, a)),
               1, <<>>, a.max_text_crops_per_page)

\* line 323: max(text_lines, key=len(text)), the first of the longest lines
BestLine(lines) ==
    lines[SetMin({i \in 1 .. Len(lines) :
                     \A k \in 1 .. Len(lines) : Len(lines[k].text) <= Len(lines[i].text)})]

\* line 336: max(56, int(min_text_block_height_px * 0.7)); the float product
\* truncates to (7 * h) \div 10 for the heights used here (not for 90, 170, ...)
TextFallbackMinHeight(a) ==
    Max(TEXT_FALLBACK_MIN_HEIGHT, (a.min_text_block_height_px * 7) \div 10)

\* lines 324-339
TextFallbackBounds(lines, page_width, page_height, a) ==
    LET best_line == BestLine(lines)
        pad == a.text_block_padding_px
    IN  ensure_minimum_bounds_size(
            clamp_bounds(ToFloat(Rect(best_line.x - pad * 2, best_line.y - pad * 2,
                                      best_line.width + pad * 4, best_line.height + pad * 4)),
                         page_width, page_height),
            a.min_crop_edge_px, TextFallbackMinHeight(a), page_width, page_height)

\* lines 321-350: the fallback, given selected as the loop left it
TextFallback(selected, lines, page_width, page_height, a) ==
    IF selected = <<>> /\ lines # <<>>
    THEN LET expanded == TextFallbackBounds(lines, page_width, page_height, a)
             best_line == BestLine(lines)
         IN  IF Area(expanded) * 1000
                    >= PageArea(page_width, page_height) * TEXT_FALLBACK_MIN_AREA_RATIO
             THEN <<[bounds |-> expanded,
                     contextText |-> Prefix(normalize_whitespace(best_line.text),
                                            a.max_context_length),
                     score |-> Max(100, Len(best_line.text) * 20)]>>
             ELSE selected
    ELSE selected

\* lines 240-350
select_text_crop_candidates(lines, page_width, page_height, a) ==
    TextFallback(TextPrimary(lines, page_width, page_height, a),
                 lines, page_width, page_height, a)

(***************************************************************************)
(* select_image_crop_boxes, lines 353-409.                                 *)
(***************************************************************************)
\* lines 360-371 (TRUE: the clamped rectangle is kept)
ImageFilter(clamped_, page_area, a) ==
    /\ ~ (clamped_.width < a.min_crop_edge_px \/ clamped_.height < a.min_crop_edge_px)
    /\ ~ (Area(clamped_) * 1000 < page_area * a.min_crop_area_ratio)
    /\ ~ (Area(clamped_) * 1000 > page_area * a.max_crop_area_ratio)
    /\ ~ \/ clamped_.width * 100 <= 15 * Max(1, clamped_.height)
         \/ clamped_.width * 10 >= 65 * Max(1, clamped_.height)

RECURSIVE SortByAreaDescending(_)
\* lines 374, 386: list.sort(key=area, reverse=True), a stable sort
SortByAreaDescending(boxes) ==
    IF boxes = <<>> THEN <<>>
    ELSE LET sorted == SortByAreaDescending(SubSeq(boxes, 1, Len(boxes) - 1))
             last == boxes[Len(boxes)]
             k == Cardinality({i \in 1 .. Len(sorted) : Area(sorted[i]) >= Area(last)})
         IN  SubSeq(sorted, 1, k) \o <<last>> \o SubSeq(sorted, k + 1, Len(sorted))

\* line 378
ImageOverlapsExisting(selected, b) ==
    \E i \in 1 .. Len(selected) :
        IoUExceeds(intersection_over_union(selected[i], b), IMAGE_IOU_PCT)

RECURSIVE ImageGreedy(_, _, _, _)
\* lines 376-382
ImageGreedy(boxes, i, selected, max_crops_per_page) ==
    IF i > Len(boxes) THEN selected
    ELSE LET next == IF ImageOverlapsExisting(selected, boxes[i])
                     THEN selected ELSE Append(selected, boxes[i])
         IN  IF Len(next) >= max_crops_per_page THEN next
             ELSE ImageGreedy(boxes, i + 1, next, max_crops_per_page)

\* lines 355-359: normalized
NormalizedBounds(raw, page_width, page_height) ==
    [i \in 1 .. Len(raw) |-> clamp_bounds(ToFloat(raw[i]), page_width, page_height)]

\* lines 354-382: selected before the fallback
ImagePrimary(raw, page_width, page_height, a) ==
    LET page_area == PageArea(page_width, page_height)
        normalized == NormalizedBounds(raw, page_width, page_height)
        Keep(b) == ImageFilter(b, page_area, a)
    IN  ImageGreedy(SortByAreaDescending(SelectSeq(normalized, Keep)),
                    1, <<>>, a.max_image_crops_per_page)

\* lines 386-404
ImageFallbackBounds(raw, page_width, page_height, a) ==
    LET page_area == PageArea(page_width, page_height)
        largest == SortByAreaDescending(NormalizedBounds(raw, page_width, page_height))[1]
        shrunk == IF Area(largest) * 1000 > page_area * a.max_crop_area_ratio
                  THEN shrink_bounds_to_target_area_ratio(largest, page_width, page_height,
                                                          IMAGE_CROP_FALLBACK_AREA_RATIO)
                  ELSE largest
    IN  ensure_minimum_bounds_size(shrunk, a.min_crop_edge_px, a.min_crop_edge_px,
                                   page_width, page_height)

\* lines 384-409: the fallback, given selected as the loop left it
ImageFallback(selected, raw, page_width, page_height, a) ==
    IF selected = <<>> /\ raw # <<>>
    THEN LET fallback == ImageFallbackBounds(raw, page_width, page_height, a)
         IN  IF Area(fallback) * 1000
                    >= PageArea(page_width, page_height) * a.min_crop_area_ratio
             THEN <<fallback>> ELSE selected
    ELSE selected

\* lines 353-409
select_image_crop_boxes(raw, page_width, page_height, a) ==
    ImageFallback(ImagePrimary(raw, page_width, page_height, a),
                  raw, page_width, page_height, a)

(***************************************************************************)
(* The defaults of parse_args, lines 416-432; area ratios in per mille.    *)
(***************************************************************************)
DefaultArgs ==
    [max_image_crops_per_page |-> 4, max_text_crops_per_page |-> 6,
     min_crop_edge_px |-> 120, min_crop_area_ratio |-> 8, max_crop_area_ratio |-> 720,
     max_context_length |-> 320, text_block_padding_px |-> 28,
     min_text_block_height_px |-> 80, min_text_block_char_length |-> 28,
     min_text_lines_per_block |-> 2, max_text_lines_per_block |-> 6]

NoRect == Rect(0, 0, 0, 0)

\* The variables of a specification that does not use them.
GeomIdle == bounds = NoRect /\ clamped = <<>> /\ box_b = NoRect /\ iou = <<>>
LinesIdle == char_items = <<>> /\ permuted = <<>> /\ lines_a = <<>> /\ lines_b = <<>>
MainIdle ==
    /\ pdf = <<>> /\ page_number = 0
    /\ page_image_files = <<>> /\ image_candidates = <<>>
    /\ total_crop_count = 0 /\ crop_sequence = 0 /\ next_crop = 0
SelectIdle ==
    /\ args = DefaultArgs
    /\ text_lines = <<>> /\ raw_image_bounds = <<>>
    /\ crop_bounds = <<>> /\ text_crop_candidates = <<>>
    /\ primary_image = <<>> /\ primary_text = <<>>

(***************************************************************************)
(* The geometry specification: clamp_bounds and intersection_over_union    *)
(* applied to every rectangle of a bounded grid.                           *)
(***************************************************************************)
GeomMax == 3

GeomCoords == (-2) .. (FloatDen * GeomMax + 3)
GeomSizes == (-3) .. (FloatDen * GeomMax + 2)
GeomPages == {[width |-> GeomMax, height |-> GeomMax - 1],
              [width |-> GeomMax - 1, height |-> GeomMax + 1]}

\* Float rectangles: every x and width of the grid, with a few y and height.
GeomFloatRects ==
    {Rect(x, y, w, h) : x \in GeomCoords, w \in GeomSizes,
                        y \in {-1, 1, FloatDen * GeomMax + 1}, h \in {-2, 0, 3}}

\* Int rectangles for the second argument of intersection_over_union.
GeomIntRects ==
    {Rect(x, y, w, h) : x \in 0 .. 1, w \in {-1, 1, GeomMax}, y \in {0, 1}, h \in {1, GeomMax}}


InitGeom ==
    /\ pc = "geom"
    /\ bounds \in GeomFloatRects
    /\ page \in GeomPages
    /\ clamped = <<>>
    /\ box_b = NoRect
    /\ iou = <<>>
    /\ SelectIdle
    /\ LinesIdle
    /\ MainIdle

\* A caller clamps a raw rectangle (lines 139, 279, 358).
ClampBounds ==
    /\ pc = "geom"
    /\ clamped = <<>>
    /\ clamped' = <<clamp_bounds(bounds, page.width, page.height)>>
    /\ UNCHANGED <<main_vars, pc, bounds, page, box_b, iou, select_vars, lines_vars>>

\* A caller clamps an already clamped rectangle again (lines 325 and 57, 358 and 65).
ClampAgain ==
    /\ pc = "geom"
    /\ Len(clamped) = 1
    /\ iou = <<>>
    /\ clamped' = Append(clamped, clamp_bounds(ToFloat(clamped[1]), page.width, page.height))
    /\ UNCHANGED <<main_vars, pc, bounds, page, box_b, iou, select_vars, lines_vars>>

\* The selectors compare two clamped rectangles (lines 313, 378).
CompareBoxes ==
    /\ pc = "geom"
    /\ Len(clamped) = 1
    /\ iou = <<>>
    /\ \E raw \in GeomIntRects :
          LET a == clamped[1]
              b == clamp_bounds(ToFloat(raw), page.width, page.height)
          IN  /\ box_b' = b
              /\ iou' = <<intersection_over_union(a, b),
                          intersection_over_union(b, a),
                          intersection_over_union(a, a)>>
    /\ UNCHANGED <<main_vars, pc, bounds, page, clamped, select_vars, lines_vars>>

NextGeom == ClampBounds \/ ClampAgain \/ CompareBoxes

SpecGeom == InitGeom /\ [][NextGeom]_vars

(***************************************************************************)
(* The selector specification: one page of main's loop, lines 503-524.     *)
(* The page's text lines and image rectangles are drawn from bounded       *)
(* universes; select_image_crop_boxes runs, then                           *)
(* select_text_crop_candidates.                                            *)
(***************************************************************************)
MaxLines == 3
MaxImages == 2

\* The sequences without repetition of at most n elements of S.
RECURSIVE SeqsUpTo(_, _)
SeqsUpTo(S, n) ==
    IF n = 0 THEN {<<>>}
    ELSE LET shorter == SeqsUpTo(S, n - 1)
         IN  shorter \cup
             {Append(q[1], q[2]) :
                 q \in {r \in shorter \X S :
                           Len(r[1]) = n - 1 /\ \A i \in 1 .. Len(r[1]) : r[1][i] # r[2]}}

Line(text, x, y, w, h) == [text |-> text, x |-> x, y |-> y, width |-> w, height |-> h]

TextAlpha == <<"a", "l", "p", "h", "a", " ", "b", "e", "t", "a", " ", "g", "a", "m", "m", "a">>
TextDelta == <<"d", "e", "l", "t", "a", " ", "e", "p", "s", "i", "l", "o", "n", " ", "z", "e", "t", "a">>
TextEta == <<"e", "t", "a", " ", "t", "h", "e", "t", "a", " ", "i", "o", "t", "a">>
TextLorem == <<"L", "o", "r", "e", "m", " ", "i", "p", "s", "u", "m", " ", "d", "o", "l", "o", "r">>
TextFig == <<"F", "i", "g", ".", " ", "1">>

\* Three stacked lines of a paragraph, a caption in the page's corner, a
\* caption in its middle, and a wide line near the bottom.
TextLineUniverse ==
    {Line(TextAlpha, 100, 100, 200, 14),
     Line(TextDelta, 100, 120, 200, 14),
     Line(TextEta, 100, 155, 200, 14),
     Line(TextFig, 0, 0, 40, 12),
     Line(TextFig, 480, 500, 40, 12),
     Line(TextLorem, 50, 900, 900, 20)}

TextPages == {[width |-> 1000, height |-> 1000], [width |-> 2000, height |-> 1500]}

TextArgs ==
    {DefaultArgs,
     [DefaultArgs EXCEPT !.text_block_padding_px = 0],
     [DefaultArgs EXCEPT !.min_text_lines_per_block = 1],
     [DefaultArgs EXCEPT !.max_text_crops_per_page = 1, !.max_context_length = 10]}

SmallImageArgs ==
    [DefaultArgs EXCEPT !.min_crop_edge_px = 10, !.min_crop_area_ratio = 50]

\* On a 40 x 40 page: the whole page, a square, two rectangles cut from it
\* (IoU 0.85 and 0.95 with the square), a speck in the corner, a rule line,
\* and an empty rectangle right of the page (a clamp result, see C1).
SmallImageUniverse ==
    {Rect(0, 0, 40, 40), Rect(0, 0, 20, 20), Rect(0, 0, 17, 20), Rect(0, 0, 19, 20),
     Rect(0, 0, 2, 2), Rect(0, 15, 40, 1), Rect(50, 0, 0, 10)}

\* On a 1000 x 1000 page: the 800 x 10 rule line, inside and at the corner,
\* and two figures that overlap (IoU 0.78).
LargeImageUniverse ==
    {Rect(100, 400, 800, 10), Rect(0, 0, 800, 10),
     Rect(100, 100, 400, 300), Rect(150, 100, 400, 300)}

\* The three paragraph lines in reading order.
Paragraph ==
    <<Line(TextAlpha, 100, 100, 200, 14),
      Line(TextDelta, 100, 120, 200, 14),
      Line(TextEta, 100, 155, 200, 14)>>

InitSelectText ==
    /\ page \in TextPages
    /\ args \in TextArgs
    /\ text_lines \in SeqsUpTo(TextLineUniverse, MaxLines)
    /\ raw_image_bounds = <<>>

InitSelectImage ==
    \/ /\ page = [width |-> 40, height |-> 40]
       /\ text_lines = <<>>
       /\ args \in {SmallImageArgs,
                    [SmallImageArgs EXCEPT !.max_image_crops_per_page = 1],
                    [SmallImageArgs EXCEPT !.min_crop_edge_px = 5]}
       /\ raw_image_bounds \in SeqsUpTo(SmallImageUniverse, MaxImages)
    \/ /\ page = [width |-> 1000, height |-> 1000]
       /\ text_lines \in {<<>>, Paragraph}
       /\ args = DefaultArgs
       /\ raw_image_bounds \in SeqsUpTo(LargeImageUniverse, MaxImages)

InitSelect ==
    /\ pc = "image"
    /\ GeomIdle
    /\ LinesIdle
    /\ MainIdle
    /\ InitSelectText \/ InitSelectImage
    /\ crop_bounds = <<>> /\ text_crop_candidates = <<>>
    /\ primary_image = <<>> /\ primary_text = <<>>

\* lines 503-511
SelectImage ==
    /\ pc = "image"
    /\ LET selected == ImagePrimary(raw_image_bounds, page.width, page.height, args)
       IN  /\ primary_image' = selected
           /\ crop_bounds' = ImageFallback(selected, raw_image_bounds,
                                           page.width, page.height, args)
    /\ pc' = "text"
    /\ UNCHANGED <<main_vars, page, geom_vars, lines_vars, args, text_lines, raw_image_bounds,
                   text_crop_candidates, primary_text>>

\* lines 512-524
SelectText ==
    /\ pc = "text"
    /\ LET selected == TextPrimary(text_lines, page.width, page.height, args)
       IN  /\ primary_text' = selected
           /\ text_crop_candidates' = TextFallback(selected, text_lines,
                                                   page.width, page.height, args)
    /\ pc' = "done"
    /\ UNCHANGED <<main_vars, page, geom_vars, lines_vars, args, text_lines, raw_image_bounds,
                   crop_bounds, primary_image>>

NextSelect == SelectImage \/ SelectText

SpecSelect == InitSelect /\ [][NextSelect]_vars

(***************************************************************************)
(* The scan specification: a page whose only image is the page itself      *)
(* (a scanned document), for every page size up to ScanMax.                *)
(***************************************************************************)
ScanMax == 60

InitScan ==
    /\ pc = "image"
    /\ GeomIdle
    /\ LinesIdle
    /\ MainIdle
    /\ \E w \in 1 .. ScanMax, h \in 1 .. ScanMax :
          /\ page = [width |-> w, height |-> h]
          /\ raw_image_bounds = <<Rect(0, 0, w, h)>>
          /\ \E edge \in {1, (3 * Min(w, h)) \div 4, Min(w, h)},
                ratio \in {DefaultArgs.min_crop_area_ratio, IMAGE_CROP_FALLBACK_AREA_RATIO * 10} :
                args = [DefaultArgs EXCEPT !.min_crop_edge_px = edge,
                                           !.min_crop_area_ratio = ratio]
    /\ text_lines = <<>>
    /\ crop_bounds = <<>> /\ text_crop_candidates = <<>>
    /\ primary_image = <<>> /\ primary_text = <<>>

SpecScan == InitScan /\ [][NextSelect]_vars

(***************************************************************************)
(* The cap specification: the selectors of one page under every per-page   *)
(* cap from 0 to MaxCap (--max-image-crops-per-page and                    *)
(* --max-text-crops-per-page take any int, lines 418-419).                 *)
(***************************************************************************)
MaxCap == 2

CapArgs ==
    {[a EXCEPT !.max_image_crops_per_page = cap, !.max_text_crops_per_page = cap] :
        a \in {DefaultArgs}, cap \in 0 .. MaxCap}

InitCap ==
    /\ pc = "image"
    /\ GeomIdle
    /\ LinesIdle
    /\ MainIdle
    /\ page = [width |-> 1000, height |-> 1000]
    /\ args \in CapArgs
    /\ \/ /\ text_lines \in SeqsUpTo(TextLineUniverse, MaxLines)
          /\ raw_image_bounds = <<>>
       \/ /\ text_lines = <<>>
          /\ raw_image_bounds \in SeqsUpTo(LargeImageUniverse, MaxImages)
    /\ crop_bounds = <<>> /\ text_crop_candidates = <<>>
    /\ primary_image = <<>> /\ primary_text = <<>>

SpecCap == InitCap /\ [][NextSelect]_vars

(***************************************************************************)
(* The line builder specification: build_text_lines on a list of           *)
(* character items and on a permutation of it.                             *)
(***************************************************************************)
MaxChars == 3

Char(text, x, y, w, h) == [text |-> text, x |-> x, y |-> y, width |-> w, height |-> h]

\* Characters of two rows: three at the same place (two glyphs and a taller
\* one), neighbours on the row, one with the x of another, a blank, and one
\* on the next row.
CharUniverse ==
    {Char("a", 0, 0, 5, 10), Char("b", 0, 0, 5, 10), Char("c", 0, 0, 5, 30),
     Char("b", 6, 1, 5, 10), Char("a", 0, 2, 5, 10), Char(" ", 12, 0, 3, 10),
     Char("c", 20, 0, 5, 10), Char("a", 0, 19, 5, 10)}

\* The orders of the list q.
OrdersOf(q) ==
    {[i \in 1 .. Len(q) |-> q[f[i]]] :
        f \in {g \in [1 .. Len(q) -> 1 .. Len(q)] :
                  \A i, j \in 1 .. Len(q) : g[i] = g[j] => i = j}}

InitLines ==
    /\ pc = "chars"
    /\ page = [width |-> 1000, height |-> 1000]
    /\ GeomIdle
    /\ SelectIdle
    /\ MainIdle
    /\ char_items \in SeqsUpTo(CharUniverse, MaxChars)
    /\ permuted \in OrdersOf(char_items)
    /\ lines_a = <<>> /\ lines_b = <<>>

\* line 482, on each of the two orders
BuildTextLines ==
    /\ pc = "chars"
    /\ lines_a' = <<build_text_lines(char_items)>>
    /\ lines_b' = <<build_text_lines(permuted)>>
    /\ pc' = "lines"
    /\ UNCHANGED <<main_vars, page, geom_vars, select_vars, char_items, permuted>>

NextLines == BuildTextLines

SpecLines == InitLines /\ [][NextLines]_vars

(***************************************************************************)
(* main, lines 436-592: the loop over the pages of the document.  A page   *)
(* of pdf is what rendering and extraction give for it (lines 449-501):    *)
(* its size in pixels, its text lines and its image rectangles.  A file    *)
(* name f"page-{n}.png" is <<"page", n>> and f"page-{n}-crop-{k}.png" is   *)
(* <<"page", n, "crop", k>>.  The fields pageText and areaRatio of a crop  *)
(* record, which nothing in the loop reads, are left out.                  *)
(***************************************************************************)
MaxPages == 3
MaxTotalCrops == 5

\* intersects_with_margin, lines 104-120
intersects_with_margin(text_bounds, crop, margin) ==
    LET crop_left == crop.x - margin
        crop_top == crop.y - margin
        crop_right == crop.x + crop.width + margin
        crop_bottom == crop.y + crop.height + margin
        text_left == text_bounds.x
        text_top == text_bounds.y
        text_right == text_bounds.x + text_bounds.width
        text_bottom == text_bounds.y + text_bounds.height
    IN  ~ \/ text_right < crop_left
          \/ text_left > crop_right
          \/ text_bottom < crop_top
          \/ text_top > crop_bottom

RECURSIVE JoinMatched(_, _, _)
\* " ".join(matched) of lines 126-131
JoinMatched(lines, crop, margin) ==
    IF lines = <<>> THEN <<>>
    ELSE LET rest == JoinMatched(Tail(lines), crop, margin)
         IN  IF ~ intersects_with_margin(Head(lines), crop, margin) THEN rest
             ELSE IF \E i \in 2 .. Len(lines) : intersects_with_margin(lines[i], crop, margin)
                  THEN Head(lines).text \o <<" ">> \o rest
                  ELSE Head(lines).text

\* build_crop_context_text, lines 123-131
build_crop_context_text(lines, crop, margin, max_length) ==
    IF lines = <<>> THEN <<>>
    ELSE Prefix(normalize_whitespace(JoinMatched(lines, crop, margin)), max_length)

PdfPage(w, h, lines, images) ==
    [width |-> w, height |-> h, text_lines |-> lines, raw_image_bounds |-> images]

\* Two figures that do not overlap.
Figures == <<Rect(100, 100, 400, 300), Rect(100, 500, 400, 300)>>

\* A page with two figures and a paragraph (four crops), a page with a
\* paragraph (two crops), and a blank page (none).
PageUniverse ==
    {PdfPage(1000, 1000, Paragraph, Figures),
     PdfPage(1000, 1000, Paragraph, <<>>),
     PdfPage(1000, 1000, <<>>, <<>>)}

\* --max-pages, --max-total-crops and --crop-context-margin-px, lines 416-425
MainArgs ==
    {DefaultArgs @@ [max_pages |-> p, max_total_crops |-> t, crop_context_margin_px |-> 100] :
        p \in 0 .. MaxPages, t \in 0 .. MaxTotalCrops}

\* line 443
pages_to_render == Min(Len(pdf), Max(1, args.max_pages))

BudgetExhaustedOffByOne(count, a) == count > a.max_total_crops

\* lines 468, 528 and 561
BudgetExhausted(count, a) == count >= a.max_total_crops

\* lines 542-556
ImageCandidate(b) ==
    [pageNumber |-> page_number,
     fileName |-> <<"page", page_number, "crop", crop_sequence>>,
     sourceType |-> "image-object",
     width |-> b.width, height |-> b.height, area |-> b.width * b.height,
     contextText |-> build_crop_context_text(text_lines, b, args.crop_context_margin_px,
                                             args.max_context_length)]

\* lines 576-588
TextBlockCandidate(candidate) ==
    [pageNumber |-> page_number,
     fileName |-> <<"page", page_number, "crop", crop_sequence>>,
     sourceType |-> "text-block",
     width |-> candidate.bounds.width, height |-> candidate.bounds.height,
     area |-> candidate.bounds.width * candidate.bounds.height,
     contextText |-> candidate.contextText]

\* lines 442-446
InitMain ==
    /\ pc = "page"
    /\ GeomIdle
    /\ LinesIdle
    /\ args \in MainArgs
    /\ pdf \in UNION {[1 .. n -> PageUniverse] : n \in 0 .. MaxPages}
    /\ page_number = 1
    /\ page = [width |-> 0, height |-> 0]
    /\ text_lines = <<>> /\ raw_image_bounds = <<>>
    /\ crop_bounds = <<>> /\ text_crop_candidates = <<>>
    /\ primary_image = <<>> /\ primary_text = <<>>
    /\ page_image_files = <<>> /\ image_candidates = <<>>
    /\ total_crop_count = 0 /\ crop_sequence = 0 /\ next_crop = 0

\* lines 448-501: render the page and record its file; when the budget is
\* used up go on to the next page, otherwise extract the page's lines and
\* images
RenderPage ==
    /\ pc = "page"
    /\ page_number <= pages_to_render
    /\ page' = [width |-> pdf[page_number].width, height |-> pdf[page_number].height]
    /\ page_image_files' = Append(page_image_files,
                                  [pageNumber |-> page_number,
                                   fileName |-> <<"page", page_number>>])
    /\ IF BudgetExhausted(total_crop_count, args)
       THEN /\ page_number' = page_number + 1
            /\ UNCHANGED <<pc, text_lines, raw_image_bounds>>
       ELSE /\ text_lines' = pdf[page_number].text_lines
            /\ raw_image_bounds' = pdf[page_number].raw_image_bounds
            /\ pc' = "image"
            /\ UNCHANGED page_number
    /\ UNCHANGED <<geom_vars, lines_vars, args, crop_bounds, text_crop_candidates,
                   primary_image, primary_text, pdf, image_candidates, total_crop_count,
                   crop_sequence, next_crop>>

\* line 526
StartCrops ==
    /\ pc = "done"
    /\ crop_sequence' = 1
    /\ next_crop' = 1
    /\ pc' = "image_crops"
    /\ UNCHANGED <<page, geom_vars, select_vars, lines_vars, pdf, page_number,
                   page_image_files, image_candidates, total_crop_count>>

\* lines 527-558: one pass of the loop body
EmitImageCrop ==
    /\ pc = "image_crops"
    /\ next_crop <= Len(crop_bounds)
    /\ ~ BudgetExhausted(total_crop_count, args)
    /\ image_candidates' = Append(image_candidates, ImageCandidate(crop_bounds[next_crop]))
    /\ crop_sequence' = crop_sequence + 1
    /\ total_crop_count' = total_crop_count + 1
    /\ next_crop' = next_crop + 1
    /\ UNCHANGED <<pc, page, geom_vars, select_vars, lines_vars, pdf, page_number,
                   page_image_files>>

\* lines 527-529: the loop ends, or breaks on the budget
EndImageCrops ==
    /\ pc = "image_crops"
    /\ next_crop > Len(crop_bounds) \/ BudgetExhausted(total_crop_count, args)
    /\ pc' = "text_crops"
    /\ next_crop' = 1
    /\ UNCHANGED <<page, geom_vars, select_vars, lines_vars, pdf, page_number,
                   page_image_files, image_candidates, total_crop_count, crop_sequence>>

\* lines 560-590: one pass of the loop body
EmitTextCrop ==
    /\ pc = "text_crops"
    /\ next_crop <= Len(text_crop_candidates)
    /\ ~ BudgetExhausted(total_crop_count, args)
    /\ image_candidates' = Append(image_candidates,
                                  TextBlockCandidate(text_crop_candidates[next_crop]))
    /\ crop_sequence' = crop_sequence + 1
    /\ total_crop_count' = total_crop_count + 1
    /\ next_crop' = next_crop + 1
    /\ UNCHANGED <<pc, page, geom_vars, select_vars, lines_vars, pdf, page_number,
                   page_image_files>>

\* lines 560-562: the loop ends, or breaks on the budget; on to the next page
EndTextCrops ==
    /\ pc = "text_crops"
    /\ next_crop > Len(text_crop_candidates) \/ BudgetExhausted(total_crop_count, args)
    /\ pc' = "page"
    /\ page_number' = page_number + 1
    /\ UNCHANGED <<page, geom_vars, select_vars, lines_vars, pdf, page_image_files,
                   image_candidates, total_crop_count, crop_sequence, next_crop>>

\* line 592, after the last page
PrintResult ==
    /\ pc = "page"
    /\ page_number > pages_to_render
    /\ pc' = "finished"
    /\ UNCHANGED <<page, geom_vars, select_vars, lines_vars, main_vars>>

NextMain ==
    \/ RenderPage
    \/ SelectImage
    \/ SelectText
    \/ StartCrops
    \/ EmitImageCrop
    \/ EndImageCrops
    \/ EmitTextCrop
    \/ EndTextCrops
    \/ PrintResult

SpecMain == InitMain /\ [][NextMain]_vars

(***************************************************************************)
(* The claims.                                                             *)
(***************************************************************************)

\* Is the rectangle b inside the page, with a non-negative size?
InsidePage(b, p) ==
    /\ 0 <= b.x /\ b.x + b.width <= p.width
    /\ 0 <= b.y /\ b.y + b.height <= p.height
    /\ b.width >= 0 /\ b.height >= 0

\* C1 (clamp containment): for every input rectangle and page size, the
\* rectangle clamp_bounds returns has 0 <= x, x + width <= W, 0 <= y,
\* y + height <= H, width >= 0 and height >= 0.  The code breaks it for a
\* rectangle that starts right of (or below) the page: x stays beyond W.
C1_ClampContainment ==
    Len(clamped) >= 1 => InsidePage(clamped[1], page)

\* Two rectangles share no point of positive area.
NoOverlap(a, b) ==
    \/ a.width <= 0 \/ a.height <= 0 \/ b.width <= 0 \/ b.height <= 0
    \/ a.x + a.width <= b.x \/ b.x + b.width <= a.x
    \/ a.y + a.height <= b.y \/ b.y + b.height <= a.y

C8_ClampIdempotent ==
    Len(clamped) = 2 => clamped[2] = clamped[1]

\* C8's case: a fractional rectangle that sticks out of the page on both
\* sides was clamped to the page's width, and the result was clamped again.
C8_Witness ==
    /\ Len(clamped) = 2
    /\ bounds.x < 0 /\ bounds.x % FloatDen # 0
    /\ bounds.x + bounds.width > page.width * FloatDen
    /\ clamped[1].width = page.width /\ clamped[1].height > 0

\* distinct accepted rectangles i, j of the list q have IoU < pct / 100
PairwiseIoUBelow(q, pct) ==
    \A i, j \in 1 .. Len(q) :
        i # j => LET v == intersection_over_union(q[i], q[j])
                 IN  v[1] * 100 < pct * v[2]

\* distinct accepted rectangles i, j of the list q have IoU <= pct / 100
PairwiseIoUAtMost(q, pct) ==
    \A i, j \in 1 .. Len(q) :
        i # j => ~ IoUExceeds(intersection_over_union(q[i], q[j]), pct)

BoundsOf(cands) == [i \in 1 .. Len(cands) |-> cands[i].bounds]

\* C2 as the spec states it (no-overlap guarantee): every pair of accepted
\* text candidates has IoU strictly below 0.72 and every pair of accepted
\* image rectangles has IoU strictly below 0.85.  The loops suppress only
\* IoU > threshold, so a pair at exactly the threshold is accepted.
C2_NoOverlapStrict ==
    pc = "done" =>
        /\ PairwiseIoUBelow(BoundsOf(text_crop_candidates), TEXT_IOU_PCT)
        /\ PairwiseIoUBelow(crop_bounds, IMAGE_IOU_PCT)

\* C2 amended: every pair of accepted text candidates has IoU at most 0.72
\* and every pair of accepted image rectangles has IoU at most 0.85.
C2_NoOverlapAtMost ==
    pc = "done" =>
        /\ PairwiseIoUAtMost(BoundsOf(text_crop_candidates), TEXT_IOU_PCT)
        /\ PairwiseIoUAtMost(crop_bounds, IMAGE_IOU_PCT)

\* C2's case: a page where both selectors accepted two overlapping
\* rectangles and the text selector suppressed a third candidate.
C2_Witness ==
    /\ pc = "done"
    /\ Len(crop_bounds) = 2
    /\ intersection_over_union(crop_bounds[1], crop_bounds[2])[1] > 0
    /\ Len(text_crop_candidates) = 2
    /\ intersection_over_union(text_crop_candidates[1].bounds,
                               text_crop_candidates[2].bounds)[1] > 0
    /\ Len(RawTextCandidates(text_lines, 1, 1, page.width, page.height, args)) = 3
    /\ args.max_text_crops_per_page > 2

\* C3 (fallback non-emptiness): (a) with a text line inside the page and a
\* fallback minimum size minEdge x max(56, 0.7 minBlockHeight) that fits the
\* page and has area >= 0.002 page area, the text selector returns a
\* candidate; (b) with a raw rectangle and minEdge x minEdge fitting the
\* page with area >= minAreaRatio page area, the image selector returns a
\* rectangle; wherever the line or rectangle lies.  The code clamps after
\* growing, so at a page edge the fallback rectangle stays below the
\* minimum size and fails the area test.
C3_FallbackNonEmpty ==
    pc = "done" =>
        /\ ( /\ \E i \in 1 .. Len(text_lines) : InsidePage(text_lines[i], page)
             /\ args.min_crop_edge_px <= page.width
             /\ TextFallbackMinHeight(args) <= page.height
             /\ args.min_crop_edge_px * TextFallbackMinHeight(args) * 1000
                    >= PageArea(page.width, page.height) * TEXT_FALLBACK_MIN_AREA_RATIO )
           => Len(text_crop_candidates) >= 1
        /\ ( /\ raw_image_bounds # <<>>
             /\ args.min_crop_edge_px <= page.width
             /\ args.min_crop_edge_px <= page.height
             /\ args.min_crop_edge_px * args.min_crop_edge_px * 1000
                    >= PageArea(page.width, page.height) * args.min_crop_area_ratio )
           => Len(crop_bounds) >= 1

\* width / height <= 0.15 or >= 6.5 (line 370)
IsSliver(b) ==
    \/ b.width * 100 <= 15 * Max(1, b.height)
    \/ b.width * 10 >= 65 * Max(1, b.height)

\* C5 (sliver rejection): no rectangle select_image_crop_boxes returns has
\* an aspect ratio <= 0.15 or >= 6.5.  The fallback path returns the largest
\* rectangle without the aspect test: the 800 x 10 rule line comes back as
\* 800 x 120.
C5_NoSliverReturned ==
    pc # "image" => \A i \in 1 .. Len(crop_bounds) : ~ IsSliver(crop_bounds[i])

\* the rectangle outer contains the rectangle inner
Contains(outer, inner) ==
    /\ outer.x <= inner.x /\ inner.x + inner.width <= outer.x + outer.width
    /\ outer.y <= inner.y /\ inner.y + inner.height <= outer.y + outer.height

\* C6 (single-line text fallback sizing): when the primary path accepts
\* nothing and a line exists, on a page at least as large as the minimum
\* size, the result is exactly one candidate that contains the longest line
\* and has width >= minEdge and height >= max(56, 0.7 minBlockHeight),
\* wherever the line lies.  For a line at the page's left or top edge the
\* code returns a narrower rectangle (or none).
C6_SingleLineFallbackSizing ==
    ( /\ pc = "done"
      /\ primary_text = <<>> /\ text_lines # <<>>
      /\ args.min_crop_edge_px <= page.width
      /\ TextFallbackMinHeight(args) <= page.height )
    => /\ Len(text_crop_candidates) = 1
       /\ Contains(text_crop_candidates[1].bounds, BestLine(text_lines))
       /\ text_crop_candidates[1].bounds.width >= args.min_crop_edge_px
       /\ text_crop_candidates[1].bounds.height >= TextFallbackMinHeight(args)

\* the margins of b on the page differ by at most 1 pixel on each axis
Centered(b, p) ==
    /\ Abs(b.x - (p.width - b.x - b.width)) <= 1
    /\ Abs(b.y - (p.height - b.y - b.height)) <= 1

\* The part of C9 that holds on every page: the full-page rectangle is
\* rejected by the primary filter, and the fallback returns one centred
\* rectangle with both edges >= minEdge and an area of at least 0.62 (and so
\* minAreaRatio) of the page.
ScanFallbackShape ==
    /\ primary_image = <<>>
    /\ Len(crop_bounds) = 1
    /\ Centered(crop_bounds[1], page)
    /\ crop_bounds[1].width >= args.min_crop_edge_px
    /\ crop_bounds[1].height >= args.min_crop_edge_px
    /\ Area(crop_bounds[1]) * 100
           >= PageArea(page.width, page.height) * IMAGE_CROP_FALLBACK_AREA_RATIO
    /\ Area(crop_bounds[1]) * 1000
           >= PageArea(page.width, page.height) * args.min_crop_area_ratio

ScanCase ==
    /\ pc # "image"
    /\ raw_image_bounds = <<Rect(0, 0, page.width, page.height)>>
    /\ args.min_crop_area_ratio <= IMAGE_CROP_FALLBACK_AREA_RATIO * 10
    /\ args.min_crop_edge_px <= Min(page.width, page.height)

BelowMaxAreaRatio(b) ==
    Area(b) * 1000 < PageArea(page.width, page.height) * args.max_crop_area_ratio

\* C9 as the spec states it (full-page scan): with maxAreaRatio 0.72,
\* minAreaRatio <= 0.62 and minEdge no larger than the page, the single
\* full-page rectangle is rejected by the primary filter and the fallback
\* returns exactly one centred rectangle with edges >= minEdge whose area is
\* at least minAreaRatio and strictly less than maxAreaRatio of the page.
\* On a small page the outward rounding, and on any page a minEdge close to
\* the page's side, bring the area to maxAreaRatio or above.
C9_FullPageScan ==
    ScanCase => ScanFallbackShape /\ BelowMaxAreaRatio(crop_bounds[1])

\* The pages on which the shrunk rectangle stays below maxAreaRatio.
RoomyPage ==
    /\ page.width >= 30 /\ page.height >= 30
    /\ 4 * args.min_crop_edge_px <= 3 * Min(page.width, page.height)

\* C9 amended: the same, with the area at least 0.62 of the page and
\* strictly less than maxAreaRatio of the page only when both page sides
\* are at least 30 pixels and minEdge is at most 3/4 of the shorter side.
C9_FullPageScanAmended ==
    ScanCase => /\ ScanFallbackShape
                /\ RoomyPage => BelowMaxAreaRatio(crop_bounds[1])

\* C9's case: an oblong roomy page whose full-page image was rejected and
\* shrunk on both axes, with a minEdge of 3/4 of the shorter side.
C9_Witness ==
    /\ ScanCase /\ RoomyPage
    /\ crop_bounds[1].x > 0 /\ crop_bounds[1].y > 0
    /\ crop_bounds[1].width < page.width /\ crop_bounds[1].height < page.height
    /\ page.width # page.height
    /\ args.min_crop_edge_px > 1

\* the area of b is within [0.004, 0.68] of the page area
TextAreaInRange(b) ==
    /\ Area(b) * 1000 >= PageArea(page.width, page.height) * TEXT_MIN_AREA_RATIO
    /\ Area(b) * 1000 <= PageArea(page.width, page.height) * TEXT_MAX_AREA_RATIO

\* C10 as the spec states it (text candidate size filter): every candidate
\* accepted through the primary path has width and height both >= minEdge,
\* height >= minBlockHeight and area within [0.004, 0.68] of the page area.
\* The code compares only the width with minEdge.
C10_TextSizeFilterBothEdges ==
    pc = "done" =>
        \A i \in 1 .. Len(primary_text) :
            LET b == primary_text[i].bounds
            IN  /\ b.width >= args.min_crop_edge_px
                /\ b.height >= args.min_crop_edge_px
                /\ b.height >= args.min_text_block_height_px
                /\ TextAreaInRange(b)

\* C10 amended: every candidate accepted through the primary path has
\* width >= minEdge, height >= minBlockHeight and area within [0.004, 0.68]
\* of the page area.
C10_TextSizeFilter ==
    pc = "done" =>
        \A i \in 1 .. Len(primary_text) :
            LET b == primary_text[i].bounds
            IN  /\ b.width >= args.min_crop_edge_px
                /\ b.height >= args.min_text_block_height_px
                /\ TextAreaInRange(b)

\* C10's case: a primary candidate lower than minEdge was accepted on a page
\* where another window was rejected by the size filter.
C10_Witness ==
    /\ pc = "done"
    /\ \E i \in 1 .. Len(primary_text) :
          /\ primary_text[i].bounds.height < args.min_crop_edge_px
          /\ primary_text[i].bounds.height >= args.min_text_block_height_px
    /\ \E start \in 1 .. Len(text_lines) : \E end_ \in start .. Len(text_lines) :
          /\ WindowLongEnough(text_lines, start, end_, args)
          /\ ~ TextSizeFilter(WindowBounds(text_lines, start, end_, page.width, page.height, args),
                              PageArea(page.width, page.height), args)

\* the two lists hold the same lines, each as often
SameLines(p, q) ==
    /\ Len(p) = Len(q)
    /\ \A l \in {p[i] : i \in 1 .. Len(p)} \cup {q[i] : i \in 1 .. Len(q)} :
          Cardinality({i \in 1 .. Len(p) : p[i] = l})
              = Cardinality({i \in 1 .. Len(q) : q[i] = l})

\* C4 (line reconstruction determinism): build_text_lines gives the same
\* lines, with the same text and bounds, for every two orders of the same
\* character items, also when two characters share (y, x) or two characters
\* of a line share x.  The sorts of lines 175 and 201 are stable and their
\* keys leave such characters in input order.
C4_LineDeterminism ==
    pc = "lines" => SameLines(lines_a[1], lines_b[1])

(***************************************************************************)
(* C11  Per-page cap: select_image_crop_boxes returns at most              *)
(* max_crops_per_page rectangles and select_text_crop_candidates at most   *)
(* max_text_crops_per_page candidates, fallback results counted, for       *)
(* every cap >= 0, the cap 0 included.                                     *)
(***************************************************************************)
C11_PerPageCap ==
    /\ pc \in {"text", "done"} => Len(crop_bounds) <= args.max_image_crops_per_page
    /\ pc = "done" => Len(text_crop_candidates) <= args.max_text_crops_per_page

\* The crop records of page n emitted so far, up to position i.
CropsOfPageUpTo(n, i) == {j \in 1 .. i : image_candidates[j].pageNumber = n}

\* The budget: total_crop_count is the number of emitted crop records and
\* never exceeds max_total_crops.
WithinBudget ==
    /\ total_crop_count = Len(image_candidates)
    /\ args.max_total_crops >= 0 => total_crop_count <= args.max_total_crops

\* On each page the crops are numbered 1, 2, ... in the order of emission,
\* the image-object crops before the text-block crops.
NumberedInOrder ==
    \A i \in 1 .. Len(image_candidates) :
        LET r == image_candidates[i]
        IN  /\ r.fileName = <<"page", r.pageNumber, "crop",
                              Cardinality(CropsOfPageUpTo(r.pageNumber, i))>>
            /\ \A j \in 1 .. i - 1 :
                  /\ image_candidates[j].pageNumber <= r.pageNumber
                  /\ (image_candidates[j].pageNumber = r.pageNumber
                      /\ r.sourceType = "image-object")
                     => image_candidates[j].sourceType = "image-object"

\* Every page rendered so far has exactly one entry of pageImageFiles.
OneFilePerRenderedPage ==
    /\ \A i \in 1 .. Len(page_image_files) :
          page_image_files[i] = [pageNumber |-> i, fileName |-> <<"page", i>>]
    /\ Len(page_image_files) = IF pc \in {"page", "finished"}
                               THEN page_number - 1 ELSE page_number
    /\ pc = "finished" => Len(page_image_files) = pages_to_render

\* Once the budget is reached no step emits a crop.
NoCropAfterBudget ==
    total_crop_count >= args.max_total_crops => image_candidates' = image_candidates

(***************************************************************************)
(* C12  Global crop budget: in the page loop of main, after any sequence   *)
(* of processed pages the number of emitted crop records (total_crop_count,*)
(* the length of image_candidates) never exceeds max_total_crops (>= 0);   *)
(* on each page the image-object crops are emitted before the text-block   *)
(* crops and crop_sequence numbers them 1, 2, ... without gaps or repeats; *)
(* once the budget is reached no later page emits a crop, while every      *)
(* rendered page still gets exactly one pageImageFiles entry.              *)
(***************************************************************************)
C12_GlobalCropBudget ==
    /\ [](WithinBudget /\ NumberedInOrder /\ OneFilePerRenderedPage)
    /\ [][NoCropAfterBudget]_vars

\* The budget runs out in the middle of a page that has emitted image and
\* text crops, and a later page is rendered without a crop.
C12_Witness ==
    /\ pc = "finished"
    /\ args.max_total_crops >= 3
    /\ total_crop_count = args.max_total_crops
    /\ Len(page_image_files) > image_candidates[Len(image_candidates)].pageNumber
    /\ \E i, j \in 1 .. Len(image_candidates) :
          /\ image_candidates[i].pageNumber = image_candidates[j].pageNumber
          /\ image_candidates[i].sourceType = "image-object"
          /\ image_candidates[j].sourceType = "text-block"
    /\ \E n \in 1 .. Len(pdf) :
          /\ n > image_candidates[Len(image_candidates)].pageNumber
          /\ n <= pages_to_render
          /\ pdf[n].text_lines # <<>>

====
